---- MODULE Spec2Model ----
(***************************************************************************)
(* The incremental post collector of 2_obtener_post_tiktok.py: the profile *)
(* loop, the pagination loop, the per-post evaluation (timestamp parsing,  *)
(* month filter, deduplication), the batched append to the CSV store and   *)
(* the density stop.  One action per step of main(); the remote API is an  *)
(* unchanging page sequence per profile, chosen in Init.                   *)
(***************************************************************************)
EXTENDS Integers, Sequences, FiniteSets, TLC

\* ------------------------------------------------------------ constants
\* 2_obtener_post_tiktok.py:20-21
BATCH_SIZE == 5
DUPLICATE_THRESHOLD == 4
\* get_start_of_current_month_timestamp(): the cutoff of the run, in the
\* model's time unit.
MONTH_LIMIT_TS == 2

\* ------------------------------------------------------------ bounds
MaxTime == 6        \* creation times of remote posts range over 1..MaxTime
MaxPageLen == 6     \* posts the API returns per page
MaxRuns == 2        \* launches of the collector
MaxFetchFail == 1   \* failed page fetches over the whole behaviour
MaxFetches == 4     \* page requests per run
MaxWriteFail == 1   \* failed writes to the store over the whole behaviour
MaxKills == 1       \* runs of the collector killed over the whole behaviour
MaxTimeK == 8       \* creation times of the remotes of the kill-and-resume runs
PageLenK == 5       \* posts per page of those remotes
MaxRows == 6        \* rows of the stores the transcript pass is launched on
MaxTranscriptRuns == 2  \* launches of the transcript pass
MaxCalls == 6       \* transcript requests over the whole behaviour

\* ------------------------------------------------------------ program data
NoCursor == 0       \* max_cursor None / absent (falsy in Python)

\* str(n) for the creation times of the model, and the string of a post
\* without create_time (video.get('create_time', 'N/A')).
DecimalStr == <<"1", "2", "3", "4", "5", "6", "7", "8", "9">>
Str(n) == DecimalStr[n]
MissingTime == "N/A"

\* int(create_time_str): ParsesAsInt is "no ValueError", ParseInt the value.
ParsesAsInt(s) == \E n \in DOMAIN DecimalStr : DecimalStr[n] = s
ParseInt(s) == CHOOSE n \in DOMAIN DecimalStr : DecimalStr[n] = s

\* FIELDNAMES_TIKTOK, reduced to the columns the collector's logic reads or
\* the later passes rewrite; writeheader() writes the names as a row.
HeaderRow ==
    [profile_handle |-> "profile_handle", create_time |-> "create_time",
     transcript |-> "transcript"]

\* post_data of an accepted video
PostData(perfil, create_time_str) ==
    [profile_handle |-> perfil, create_time |-> create_time_str,
     transcript |-> "N/A"]

VARIABLES
    pc,                     \* position of main(): idle, fetch, eval, page_end, profile_end
    run,                    \* launches so far
    csv_file,               \* base_de_datos_tiktok.csv: [exists, lines]
    existing_timestamps,    \* the dedup index
    total_new_posts_added,
    new_data_batch,         \* the pending batch
    i,                      \* index of the current profile in perfiles
    max_cursor,
    videos_data_json,       \* the page being evaluated
    j,                      \* position of the next post of the page
    duplicate_count_in_page,
    new_timestamps_to_add,  \* ids staged by the current page
    remote,                 \* the API's page sequence per profile (unchanging)
    fetchFails,             \* failed fetches so far
    fetchLog,               \* this run's page requests and what became of them
    verdicts,               \* what happened to each evaluated post of the page
    accepted,               \* this run's accepted posts, in order
    rowsAtLaunch,           \* rows of the store when this run was launched
    flushLog,               \* this run's calls of save_batch_to_csv_tiktok
    profiles_file,          \* perfiles_tiktok.txt: [exists, lines] (unchanging)
    kills,                  \* runs of the collector killed so far
    writeFailsLeft,         \* writes to the store that can still fail
    tpc,                    \* position of the transcript pass: idle, row, end
    truns,                  \* launches of the transcript pass so far
    df,                     \* its DataFrame: the rows of the store as read
    posts_to_process,       \* the indices of df pending at load, in order
    iterated,               \* how many of them the for loop has visited
    total_posts_processed_session,
    transcript_calls,       \* the transcript requests made, over all launches
    fileAtLoad              \* the store as the last launch of the pass found it

vars ==
    <<pc, run, csv_file, existing_timestamps, total_new_posts_added,
      new_data_batch, i, max_cursor, videos_data_json, j,
      duplicate_count_in_page, new_timestamps_to_add, remote, fetchFails,
      fetchLog, verdicts, accepted, rowsAtLaunch, flushLog, profiles_file, kills,
      writeFailsLeft, tpc, truns, df, posts_to_process, iterated,
      total_posts_processed_session, transcript_calls, fileAtLoad>>

\* The state of 3_transcript_tiktok_post.py, a process of its own
transcript_pass ==
    <<tpc, truns, df, posts_to_process, iterated,
      total_posts_processed_session, transcript_calls, fileAtLoad>>

\* What no step of main() changes
aside == <<profiles_file, kills, transcript_pass>>

\* ------------------------------------------------------------ the profile list
\* A line of perfiles_tiktok.txt is a sequence of chunks: blanks, a handle,
\* the newline.  line.strip() removes the whitespace at both ends.
Blank == {" ", "\n"}

RECURSIVE lstrip(_)
lstrip(line) ==
    IF line # <<>> /\ Head(line) \in Blank THEN lstrip(Tail(line)) ELSE line

RECURSIVE rstrip(_)
rstrip(line) ==
    IF line # <<>> /\ line[Len(line)] \in Blank
    THEN rstrip(SubSeq(line, 1, Len(line) - 1)) ELSE line

RECURSIVE Join(_)
Join(chunks) == IF chunks = <<>> THEN "" ELSE Head(chunks) \o Join(Tail(chunks))

strip(line) == Join(rstrip(lstrip(line)))

\* Lines 129-132: [line.strip() for line in f if line.strip()]; the list
\* stays empty when the file is missing.
perfiles_unfiltered ==
    IF ~profiles_file.exists THEN <<>>
    ELSE [k \in DOMAIN profiles_file.lines |-> strip(profiles_file.lines[k])]
perfiles ==
    IF ~profiles_file.exists THEN <<>>
    ELSE SelectSeq([k \in DOMAIN profiles_file.lines |->
                        strip(profiles_file.lines[k])],
                   LAMBDA handle : handle # "")

\* The profile list: missing, empty, blank lines only, or two handles with
\* blank lines and blanks around them.
NoProfilesFile == [exists |-> FALSE, lines |-> <<>>]

ProfileFiles ==
    {NoProfilesFile,
     [exists |-> TRUE, lines |-> <<>>],
     [exists |-> TRUE, lines |-> << <<"\n">>, <<" ", "\n">> >>],
     [exists |-> TRUE,
      lines |-> << <<"alice", "\n">>, <<"\n">>, <<" ", "bob", " ", "\n">>,
                   <<" ", "\n">> >>]}

\* ------------------------------------------------------------ the remote API
\* A profile's feed: posts newest first, hi down to lo, with at most one
\* extra post: a pinned old post or a post without timestamp at the top or
\* after the first post, a repeat of the newest post after it or at the end,
\* or a post newer than the feed's at the end.
Feed(hi, lo) == [k \in 1..(hi - lo + 1) |-> Str(hi + 1 - k)]

InsertAt(s, at, x) == SubSeq(s, 1, at) \o <<x>> \o SubSeq(s, at + 1, Len(s))

\* The feed cut into pages of MaxPageLen posts; every page but the last
\* carries the cursor of the next page and has_more = 1, the last page
\* carries `cursor` (NoCursor, or one past the end) and `more`.
NumPages(feed) == (Len(feed) + MaxPageLen - 1) \div MaxPageLen

PagesOf(feed, lastHasCursor, lastMore) ==
    [n \in 1..NumPages(feed) |->
        LET last == n = NumPages(feed)
            upto == IF last THEN Len(feed) ELSE n * MaxPageLen
        IN  [aweme_list |-> SubSeq(feed, (n - 1) * MaxPageLen + 1, upto),
             max_cursor |-> IF last /\ ~lastHasCursor THEN NoCursor ELSE n + 1,
             has_more |-> IF last THEN lastMore ELSE 1]]

\* What the API answers past the end of a feed.
EmptyPage == [aweme_list |-> <<>>, max_cursor |-> NoCursor, has_more |-> 0]

\* get_tiktok_videos_page(handle, cursor) when the call succeeds: without
\* cursor the first page, with cursor n the n-th; nothing for a handle the
\* remote does not know.
Response(handle, cursor) ==
    LET n == IF cursor = NoCursor THEN 1 ELSE cursor
    IN  IF handle \in DOMAIN remote /\ n <= Len(remote[handle])
        THEN remote[handle][n] ELSE EmptyPage

Extras(f) ==
    {<<at, x>> : at \in {0, 1}, x \in {MissingTime, Str(1)}}
        \cup {<<1, f[1]>>, <<Len(f), f[1]>>, <<Len(f), Str(MaxTime)>>}

Feeds ==
    LET plain == {Feed(hi, lo) : hi \in 1..MaxTime, lo \in 1..MaxTime} \ {<<>>}
    IN  plain \cup UNION {{InsertAt(f, e[1], e[2]) : e \in Extras(f)} : f \in plain}

\* The last page of alice's feed reports no cursor, or has_more = 0, or
\* neither (and the next request finds nothing); bob has one post, with or
\* without cursor.
LastPageFlags == {<<FALSE, 1>>, <<TRUE, 0>>, <<TRUE, 1>>}

Remotes ==
    {[h \in {"alice", "bob"} |->
        IF h = "alice" THEN PagesOf(f, flags[1], flags[2])
        ELSE PagesOf(<<Str(MaxTime)>>, bc, 1)] :
        f \in Feeds, flags \in LastPageFlags, bc \in BOOLEAN}

\* ------------------------------------------------------------ the store
NoFile == [exists |-> FALSE, lines |-> <<>>]
EmptyFile == [exists |-> TRUE, lines |-> <<>>]

\* The store an earlier month's and this month's runs left: alice's posts
\* created at 1..s.
StoreUpTo(s) ==
    [exists |-> TRUE,
     lines |-> <<HeaderRow>> \o [k \in 1..s |-> PostData("alice", Str(k))]]

InitialStores == {NoFile, EmptyFile} \cup {StoreUpTo(s) : s \in 1..MaxTime}

\* The data rows of the store, header lines left out
StoreRows(f) == SelectSeq(f.lines, LAMBDA line : line # HeaderRow)

\* os.path.getsize(file_name) == 0
ZeroSize(f) == f.lines = <<>>

\* The strings read_csv turns into NaN whatever the dtype, among those of
\* the model; dropna() removes them.
NaStrings == {"", "N/A", "NA"}

\* load_existing_timestamps: pandas takes the first line as the column
\* names; a missing file gives the empty set, an empty file (EmptyDataError)
\* or a file without create_time column (KeyError) too.
load_existing_timestamps_all_lines(f) ==
    IF ~f.exists \/ ZeroSize(f) \/ f.lines[1] # HeaderRow THEN {}
    ELSE {f.lines[k].create_time : k \in 1..Len(f.lines)} \ NaStrings
load_existing_timestamps(f) ==
    IF ~f.exists \/ ZeroSize(f) \/ f.lines[1] # HeaderRow THEN {}
    ELSE {f.lines[k].create_time : k \in 2..Len(f.lines)} \ NaStrings

\* save_batch_to_csv_tiktok line 107
write_header_missing_only(f) == ~f.exists
write_header(f) == ~f.exists \/ ZeroSize(f)

\* save_batch_to_csv_tiktok: the file after the call.  `written` is whether
\* the append went through; when open() raises, the except clause of line
\* 118 prints the error, nothing is written and the call returns normally.
save_batch_to_csv_tiktok(data_batch, f, written) ==
    IF written
    THEN [exists |-> TRUE,
          lines |-> f.lines \o (IF write_header(f) THEN <<HeaderRow>> ELSE <<>>)
                            \o data_batch]
    ELSE f

\* Whether the next write can fail
WriteOutcomes == IF writeFailsLeft > 0 THEN BOOLEAN ELSE {TRUE}

FlushRecord(data_batch, f, place, request, written, staged) ==
    [rows |-> IF written THEN Len(data_batch) ELSE 0,
     header |-> written /\ write_header(f),
     empty_before |-> ~f.exists \/ ZeroSize(f), at |-> place,
     request |-> request, ok |-> written, staged |-> staged]

\* ------------------------------------------------------------ Init
\* The transcript pass before its first launch
TranscriptPassIdle ==
    /\ tpc = "idle"
    /\ truns = 0
    /\ df = <<>>
    /\ posts_to_process = <<>>
    /\ iterated = 0
    /\ total_posts_processed_session = 0
    /\ transcript_calls = <<>>
    /\ fileAtLoad = NoFile

\* The state before the first launch; Init is the collector on a disk whose
\* writes all go through, InitW on a disk where writes can fail.
Start ==
    /\ pc = "idle"
    /\ run = 0
    /\ csv_file \in InitialStores
    /\ existing_timestamps = {}
    /\ total_new_posts_added = 0
    /\ new_data_batch = <<>>
    /\ i = 1
    /\ max_cursor = NoCursor
    /\ videos_data_json = EmptyPage
    /\ j = 1
    /\ duplicate_count_in_page = 0
    /\ new_timestamps_to_add = {}
    /\ remote \in Remotes
    /\ fetchFails = 0
    /\ fetchLog = <<>>
    /\ verdicts = <<>>
    /\ accepted = <<>>
    /\ rowsAtLaunch = 0
    /\ flushLog = <<>>
    /\ profiles_file \in ProfileFiles
    /\ kills = 0
    /\ TranscriptPassIdle

Init == Start /\ writeFailsLeft = 0

\* Remotes of PageLenK posts per page: alice's feed hi down to lo, bob's one
\* post with an id of his own.
PagesBy(feed, size, lastHasCursor, lastMore) ==
    LET pages == (Len(feed) + size - 1) \div size
    IN  [n \in 1..pages |->
            LET last == n = pages
                upto == IF last THEN Len(feed) ELSE n * size
            IN  [aweme_list |-> SubSeq(feed, (n - 1) * size + 1, upto),
                 max_cursor |-> IF last /\ ~lastHasCursor THEN NoCursor ELSE n + 1,
                 has_more |-> IF last THEN lastMore ELSE 1]]

RemotesK ==
    {[h \in {"alice", "bob"} |->
        IF h = "alice" THEN PagesBy(Feed(hi, lo), PageLenK, flags[1], flags[2])
        ELSE PagesBy(<<Str(MaxTimeK)>>, PageLenK, bc, 1)] :
        hi \in 1..(MaxTimeK - 1), lo \in 1..(MaxTimeK - 1),
        flags \in LastPageFlags, bc \in BOOLEAN}

InitK ==
    /\ pc = "idle"
    /\ run = 0
    /\ csv_file \in {NoFile, EmptyFile}
    /\ existing_timestamps = {}
    /\ total_new_posts_added = 0
    /\ new_data_batch = <<>>
    /\ i = 1
    /\ max_cursor = NoCursor
    /\ videos_data_json = EmptyPage
    /\ j = 1
    /\ duplicate_count_in_page = 0
    /\ new_timestamps_to_add = {}
    /\ remote \in {r \in RemotesK : r.alice # <<>>}
    /\ fetchFails = 0
    /\ fetchLog = <<>>
    /\ verdicts = <<>>
    /\ accepted = <<>>
    /\ rowsAtLaunch = 0
    /\ flushLog = <<>>
    /\ profiles_file \in {f \in ProfileFiles : Len(f.lines) > 2}
    /\ kills = 0
    /\ writeFailsLeft = 0
    /\ TranscriptPassIdle

InitW == Start /\ writeFailsLeft = MaxWriteFail

\* ------------------------------------------------------------ main()
\* Line 152: the cursor a profile's pagination starts with, whatever the
\* cursor the previous profile left.
first_cursor_kept(left) == left
first_cursor(left) == NoCursor

\* Lines 122-153: a launch of the collector up to the first profile's
\* first request; without any handle in the profile list main returns at
\* line 135 or 138, before it reads the store.
Launch ==
    /\ pc \in {"idle", "killed"}
    /\ run < MaxRuns
    /\ run' = run + 1
    /\ IF perfiles = <<>>
       THEN /\ pc' = "idle"
            /\ UNCHANGED <<existing_timestamps, total_new_posts_added,
                           new_data_batch, i, max_cursor>>
       ELSE /\ existing_timestamps' = load_existing_timestamps(csv_file)
            /\ total_new_posts_added' = 0
            /\ new_data_batch' = <<>>
            /\ i' = 1
            /\ max_cursor' = first_cursor(max_cursor)
            /\ pc' = "fetch"
    /\ fetchLog' = <<>>
    /\ verdicts' = <<>>
    /\ accepted' = <<>>
    /\ rowsAtLaunch' = Len(StoreRows(csv_file))
    /\ flushLog' = <<>>
    /\ UNCHANGED <<csv_file, videos_data_json, j, duplicate_count_in_page,
                   new_timestamps_to_add, remote, fetchFails, aside,
                   writeFailsLeft>>

\* ------------------------------------------------------------ the pagination loop
\* Lines 156-172: one request of the while loop.  The call fails (None) or
\* returns the remote's page; a failed call and a page without posts leave
\* the loop.
Requested(outcome, data) ==
    [profile |-> i, cursor |-> max_cursor, outcome |-> outcome,
     indexed |-> Cardinality({k \in DOMAIN data.aweme_list :
                                data.aweme_list[k] \in existing_timestamps}),
     pending |-> Len(new_data_batch), accepted_before |-> Len(accepted),
     dup |-> 0, old |-> 0, decision |-> "open",
     max_cursor |-> data.max_cursor, has_more |-> data.has_more]

\* Lines 159-160 and 165-167: no page (the call failed) and a page without
\* posts leave the while loop; a page with posts is evaluated.
after_fetch_retry(outcome) ==
    IF outcome = "page" THEN "eval"
    ELSE IF outcome = "failed" THEN "fetch" ELSE "profile_end"
after_fetch(outcome) == IF outcome = "page" THEN "eval" ELSE "profile_end"

\* The request repeats the run's last one from the same state of main: the
\* last page was evaluated without anything accepted or flushed and the loop
\* went on with the cursor it had.  The log keeps one entry for the two, so
\* a run that requests the same page for ever is a cycle of the model.
Repeats(entry) ==
    /\ fetchLog # <<>>
    /\ fetchLog[Len(fetchLog)].decision = "continue"
    /\ entry = [fetchLog[Len(fetchLog)] EXCEPT
                    !.dup = 0, !.old = 0, !.decision = "open"]

Logged(entry) ==
    IF Repeats(entry) THEN [fetchLog EXCEPT ![Len(fetchLog)] = entry]
    ELSE Append(fetchLog, entry)

FetchPage ==
    /\ pc = "fetch"
    /\ \E ok \in (IF fetchFails < MaxFetchFail THEN BOOLEAN ELSE {TRUE}) :
        LET data == Response(perfiles[i], max_cursor)
            posts == data.aweme_list
        IN  /\ \/ Len(fetchLog) < MaxFetches
               \/ ok /\ Repeats(Requested("page", data))
            /\ IF ~ok
               THEN /\ pc' = after_fetch("failed")
                    /\ fetchFails' = fetchFails + 1
                    /\ fetchLog' = Append(fetchLog, Requested("failed", EmptyPage))
                    /\ UNCHANGED <<max_cursor, videos_data_json, j,
                                   duplicate_count_in_page, new_timestamps_to_add,
                                   verdicts>>
               ELSE /\ max_cursor' = data.max_cursor
                    /\ videos_data_json' = data
                    /\ fetchFails' = fetchFails
                    /\ IF posts = <<>>
                       THEN /\ pc' = after_fetch("empty")
                            /\ fetchLog' = Append(fetchLog, Requested("empty", data))
                            /\ UNCHANGED <<j, duplicate_count_in_page,
                                           new_timestamps_to_add, verdicts>>
                       ELSE /\ pc' = after_fetch("page")
                            /\ fetchLog' = Logged(Requested("page", data))
                            /\ j' = 1
                            /\ duplicate_count_in_page' = 0
                            /\ new_timestamps_to_add' = {}
                            /\ verdicts' = <<>>
    /\ UNCHANGED <<run, csv_file, existing_timestamps, total_new_posts_added,
                   new_data_batch, i, remote, accepted, rowsAtLaunch, flushLog,
                   aside, writeFailsLeft>>

\* Line 187: the month filter
too_old_inclusive(create_time_int) == create_time_int <= MONTH_LIMIT_TS
too_old_never(create_time_int) == FALSE
too_old(create_time_int) == create_time_int < MONTH_LIMIT_TS

\* Line 193: the dedup lookup
is_duplicate_own_profile(create_time_str, index) ==
    /\ create_time_str \in index
    /\ \E k \in DOMAIN csv_file.lines :
            csv_file.lines[k] = PostData(perfiles[i], create_time_str)
is_duplicate(create_time_str, index) == create_time_str \in index

\* Line 229
batch_full_late(batch) == Len(batch) > BATCH_SIZE
batch_full(batch) == Len(batch) >= BATCH_SIZE

\* Lines 175-195: what the loop body does with a post
Verdict_unparsed(create_time_str, index) ==
    IF ParsesAsInt(create_time_str) /\ too_old(ParseInt(create_time_str)) THEN "old"
    ELSE IF is_duplicate(create_time_str, index) THEN "duplicate"
    ELSE "accepted"
Verdict(create_time_str, index) ==
    IF ~ParsesAsInt(create_time_str) THEN "invalid"
    ELSE IF too_old(ParseInt(create_time_str)) THEN "old"
    ELSE IF is_duplicate(create_time_str, index) THEN "duplicate"
    ELSE "accepted"

\* Lines 175, 183, 190, 195: `continue` and the end of the body go to the
\* page's next post, and past the last post the loop ends.
after_post_break(verdict, pos, n) ==
    IF verdict = "old" \/ pos = n THEN "page_end" ELSE "eval"
after_post_dense(verdict, pos, n) ==
    IF pos = n \/ ( /\ verdict = "duplicate"
                    /\ duplicate_count_in_page + 1 >= DUPLICATE_THRESHOLD )
    THEN "page_end" ELSE "eval"
after_post(verdict, pos, n) == IF pos = n THEN "page_end" ELSE "eval"

\* Lines 175-233: one iteration of the for loop over the page's posts,
\* the incremental save included.
EvalPost ==
    /\ pc = "eval"
    /\ j <= Len(videos_data_json.aweme_list)
    /\ LET create_time_str == videos_data_json.aweme_list[j]
           verdict == Verdict(create_time_str, existing_timestamps)
           post_data == PostData(perfiles[i], create_time_str)
           batch == Append(new_data_batch, post_data)
           staged == new_timestamps_to_add \cup {create_time_str}
       IN  /\ verdicts' = Append(verdicts,
                [verdict |-> verdict,
                 indexed |-> create_time_str \in existing_timestamps])
           /\ duplicate_count_in_page' =
                IF verdict = "duplicate" THEN duplicate_count_in_page + 1
                ELSE duplicate_count_in_page
           /\ IF verdict = "accepted"
              THEN /\ total_new_posts_added' = total_new_posts_added + 1
                   /\ accepted' = Append(accepted, post_data)
                   /\ IF batch_full(batch)
                      THEN \E written \in WriteOutcomes :
                           /\ csv_file' =
                                save_batch_to_csv_tiktok(batch, csv_file, written)
                           /\ flushLog' = Append(flushLog,
                                            FlushRecord(batch, csv_file, "batch",
                                                        Len(fetchLog), written,
                                                        staged))
                           /\ writeFailsLeft' =
                                IF written THEN writeFailsLeft
                                ELSE writeFailsLeft - 1
                           /\ existing_timestamps' = existing_timestamps \cup staged
                           /\ new_data_batch' = <<>>
                           /\ new_timestamps_to_add' = {}
                      ELSE /\ new_data_batch' = batch
                           /\ new_timestamps_to_add' = staged
                           /\ UNCHANGED <<csv_file, flushLog, existing_timestamps,
                                          writeFailsLeft>>
              ELSE UNCHANGED <<total_new_posts_added, accepted, csv_file, flushLog,
                               existing_timestamps, new_data_batch,
                               new_timestamps_to_add, writeFailsLeft>>
           /\ pc' = after_post(verdict, j, Len(videos_data_json.aweme_list))
    /\ j' = j + 1
    /\ UNCHANGED <<run, i, max_cursor, videos_data_json, remote, fetchFails,
                   fetchLog, rowsAtLaunch, aside>>

\* Line 238
should_break_strict(duplicate_count) == duplicate_count > DUPLICATE_THRESHOLD
should_break(duplicate_count) == duplicate_count >= DUPLICATE_THRESHOLD

\* Line 243
stop_or_end_no_flag(break, cursor, has_more) == break \/ cursor = NoCursor
stop_or_end(break, cursor, has_more) ==
    break \/ cursor = NoCursor \/ has_more = 0

\* Lines 248 and 255: the page's staged ids go into the index with the
\* flush of the remaining batch, and at the end of every page that does
\* not break.
consolidated_with_flush(flush, break) == flush
consolidated(flush, break) == flush \/ ~break

\* Lines 235-258: after the page's last post
Evaluated(entry, decision) ==
    [entry EXCEPT !.dup = duplicate_count_in_page,
                  !.old = Cardinality({k \in DOMAIN verdicts :
                                        verdicts[k].verdict = "old"}),
                  !.decision = decision]

PageEnd ==
    /\ pc = "page_end"
    /\ LET break == should_break(duplicate_count_in_page)
           consolidate == stop_or_end(break, max_cursor, videos_data_json.has_more)
           flush == consolidate /\ new_data_batch # <<>>
           last == Len(fetchLog)
       IN  /\ IF flush
              THEN \E written \in WriteOutcomes :
                   /\ csv_file' =
                        save_batch_to_csv_tiktok(new_data_batch, csv_file, written)
                   /\ flushLog' = Append(flushLog,
                                    FlushRecord(new_data_batch, csv_file, "page_end",
                                                Len(fetchLog), written,
                                                new_timestamps_to_add))
                   /\ writeFailsLeft' =
                        IF written THEN writeFailsLeft ELSE writeFailsLeft - 1
                   /\ new_data_batch' = <<>>
              ELSE UNCHANGED <<csv_file, flushLog, new_data_batch, writeFailsLeft>>
           /\ existing_timestamps' =
                IF consolidated(flush, break)
                THEN existing_timestamps \cup new_timestamps_to_add
                ELSE existing_timestamps
           /\ pc' = IF break THEN "profile_end" ELSE "fetch"
           /\ fetchLog' = [fetchLog EXCEPT ![last] =
                Evaluated(fetchLog[last], IF break THEN "break" ELSE "continue")]
    /\ UNCHANGED <<run, total_new_posts_added, i, max_cursor, videos_data_json,
                   j, duplicate_count_in_page, new_timestamps_to_add, remote,
                   fetchFails, verdicts, accepted, rowsAtLaunch, aside>>

\* Lines 260-263 and 149-153: the profile is done; the next profile starts
\* without cursor, or the run completes.
ProfileEnd ==
    /\ pc = "profile_end"
    /\ IF i < Len(perfiles)
       THEN /\ i' = i + 1
            /\ max_cursor' = first_cursor(max_cursor)
            /\ pc' = "fetch"
       ELSE /\ pc' = "idle"
            /\ UNCHANGED <<i, max_cursor>>
    /\ UNCHANGED <<run, csv_file, existing_timestamps, total_new_posts_added,
                   new_data_batch, videos_data_json, j, duplicate_count_in_page,
                   new_timestamps_to_add, remote, fetchFails, fetchLog, verdicts,
                   accepted, rowsAtLaunch, flushLog, aside,
                   writeFailsLeft>>

Next == Launch \/ FetchPage \/ EvalPost \/ PageEnd \/ ProfileEnd

\* The process is killed between two steps: what main() held in memory is
\* gone, the store stays as the last write left it.
Kill ==
    /\ pc \notin {"idle", "killed"}
    /\ kills < MaxKills
    /\ pc' = "killed"
    /\ kills' = kills + 1
    /\ UNCHANGED <<run, csv_file, existing_timestamps, total_new_posts_added,
                   new_data_batch, i, max_cursor, videos_data_json, j,
                   duplicate_count_in_page, new_timestamps_to_add, remote,
                   fetchFails, fetchLog, verdicts, accepted, rowsAtLaunch,
                   flushLog, profiles_file, writeFailsLeft, transcript_pass>>

NextK == Next \/ Kill

Spec == Init /\ [][Next]_vars

\* The collector on a disk where writes can fail
SpecW == InitW /\ [][Next]_vars

\* The collector killed and launched again, on remotes whose feeds span
\* two pages of posts in the window.
SpecK == InitK /\ [][NextK]_vars

\* main() is one sequential thread: once launched, each step it can take is
\* taken.  Launching is the user's.
Fairness ==
    /\ WF_vars(FetchPage)
    /\ WF_vars(EvalPost)
    /\ WF_vars(PageEnd)
    /\ WF_vars(ProfileEnd)

LiveSpec == Init /\ [][Next]_vars /\ Fairness

\* ------------------------------------------------------------ the transcript pass
\* 3_transcript_tiktok_post.py reads the whole store into a DataFrame, asks
\* the API for the transcript of every row whose transcript is "N/A" and
\* writes the whole DataFrame back.  Its rows carry the url column, which
\* the collector writes and never reads.
HeaderRowUrl ==
    [profile_handle |-> "profile_handle", create_time |-> "create_time",
     url |-> "url", transcript |-> "transcript"]

StoredPost(k, url, transcript) ==
    [profile_handle |-> "alice", create_time |-> Str(k), url |-> url,
     transcript |-> transcript]

\* A share url of the API, and the collector's default for a video without
\* one (2_obtener_post_tiktok.py:209).
ShareUrl == "https://www.tiktok.com/@alice/video/1"
MissingUrl == "N/A"

\* The float nan of a DataFrame cell and Python's None, apart from every
\* string a cell or a transcript can hold.
NaN == "<nan>"
None == "<None>"

\* Line 69: read_csv fails on an empty file (EmptyDataError); otherwise the
\* first line gives the columns and every other line a row.  A cell whose
\* text is one of the NA strings becomes nan in any column, the dtype
\* given for transcript included; create_time is parsed as an integer.
parse_cell(column, text) ==
    IF text \in NaStrings THEN NaN
    ELSE IF column = "create_time" /\ ParsesAsInt(text) THEN Str(ParseInt(text))
    ELSE text

read_csv(f) ==
    [k \in 1..(Len(f.lines) - 1) |->
        [c \in DOMAIN f.lines[1] |-> parse_cell(c, f.lines[k + 1][c])]]

\* Lines 75-78: the transcript column is added when the file has none, and
\* nan becomes "N/A".
fillna(frame) ==
    [k \in DOMAIN frame |->
        [c \in DOMAIN frame[k] \cup {"transcript"} |->
            IF c # "transcript" THEN frame[k][c]
            ELSE IF "transcript" \in DOMAIN frame[k] /\ frame[k].transcript # NaN
                 THEN frame[k].transcript
            ELSE "N/A"]]

\* Line 83: the indices of the rows whose transcript is "N/A", in order
pending(frame) ==
    LET F[n \in 0..Len(frame)] ==
            IF n = 0 THEN <<>>
            ELSE IF frame[n].transcript = "N/A" THEN Append(F[n - 1], n)
            ELSE F[n - 1]
    IN  F[Len(frame)]

\* Lines 125 and 134: to_csv writes the column names and every row of the
\* DataFrame over the file; nan is written as the empty string.
format_cell(value) == IF value = NaN THEN "" ELSE value

to_csv(frame) ==
    [exists |-> TRUE,
     lines |-> << [c \in DOMAIN frame[1] |-> c] >>
               \o [k \in DOMAIN frame |->
                    [c \in DOMAIN frame[k] |-> format_cell(frame[k][c])]]]

\* Line 101: the url is nan, or nothing but whitespace (of the strings of
\* the model only " " is).
url_missing(video_url) == video_url = NaN \/ video_url \in {"", " "}

\* The transcript endpoint.  A transcript is a sequence of chunks: the
\* WEBVTT heading, cue timings, text, newlines.
Webvtt == "WEBVTT\n\n"
Cue == "00:00:00.000 --> 00:00:01.000\n"

\* str.lower() on the chunks of the model
lower(chunks) ==
    [k \in DOMAIN chunks |->
        CASE chunks[k] = "N/A" -> "n/a"
          [] chunks[k] = "NA" -> "na"
          [] chunks[k] = Webvtt -> "webvtt\n\n"
          [] OTHER -> chunks[k]]

\* Lines 38-40: the cue timings and the heading are removed, newlines
\* become spaces, the ends are stripped.
clean_text(chunks) ==
    strip([k \in DOMAIN SelectSeq(chunks, LAMBDA c : c \notin {Cue, Webvtt}) |->
            LET c == SelectSeq(chunks, LAMBDA d : d \notin {Cue, Webvtt})[k]
            IN  IF c = "\n" THEN " " ELSE c])

\* get_tiktok_transcript, lines 25-49: None when the request fails, the
\* unavailable mark for an empty or invalid transcript, else the cleaned
\* text.
get_tiktok_transcript(response) ==
    IF ~response.ok THEN None
    ELSE IF \/ response.transcript = <<>>
            \/ Join(lower(response.transcript)) \in {"n/a", "none", "error"}
    THEN "TRANSCRIPCION_NO_DISPONIBLE"
    ELSE clean_text(response.transcript)

\* Lines 110-116: what the row gets for what the call returned
stored_transcript(transcript) ==
    IF transcript # None /\ transcript # "" THEN transcript
    ELSE "FALLO_API_REINTENTAR"

\* What the endpoint can answer: a failure, or a transcript that is empty,
\* the text "N/A", plain text, a WEBVTT document (of a text, of nothing, of
\* the text "N/A"), or the text "NA".
Responses ==
    {[ok |-> FALSE, transcript |-> <<>>]}
        \cup {[ok |-> TRUE, transcript |-> t] :
                t \in {<<>>, <<"N/A">>, <<"hola">>,
                       <<Webvtt, Cue, "hola", "\n">>, <<Webvtt>>,
                       <<Webvtt, Cue, "N/A", "\n">>, <<"NA">>}}

\* What the collector has in hand that the transcript pass never touches
collector ==
    <<pc, run, existing_timestamps, total_new_posts_added, new_data_batch, i,
      max_cursor, videos_data_json, j, duplicate_count_in_page,
      new_timestamps_to_add, remote, fetchFails, fetchLog, verdicts, accepted,
      rowsAtLaunch, flushLog, profiles_file, kills, writeFailsLeft>>

\* Lines 51-93: a launch up to the for loop.  main returns when the file is
\* missing (62-64), cannot be read (70-72) or has no pending row (85-87).
TranscriptLaunch ==
    /\ tpc = "idle"
    /\ truns < MaxTranscriptRuns
    /\ truns' = truns + 1
    /\ fileAtLoad' = csv_file
    /\ iterated' = 0
    /\ total_posts_processed_session' = 0
    /\ IF ~csv_file.exists \/ ZeroSize(csv_file)
       THEN /\ df' = <<>>
            /\ posts_to_process' = <<>>
            /\ tpc' = "idle"
       ELSE LET frame == fillna(read_csv(csv_file))
            IN  /\ df' = frame
                /\ posts_to_process' = pending(frame)
                /\ tpc' = IF pending(frame) = <<>> THEN "idle" ELSE "row"
    /\ UNCHANGED <<csv_file, transcript_calls, collector>>

\* Line 124
save_due(total) == total % BATCH_SIZE = 0

\* Lines 96-130: one iteration of the for loop.  A row without url is
\* marked and the loop continues at line 103; any other row costs one
\* request, is counted, and every BATCH_SIZE counted rows the DataFrame is
\* written.
TranscriptRow ==
    /\ tpc = "row"
    /\ iterated < Len(posts_to_process)
    /\ LET index == posts_to_process[iterated + 1]
           video_url == df[index].url
       IN  IF url_missing(video_url)
           THEN /\ df' = [df EXCEPT ![index].transcript = "URL_NO_VALIDA"]
                /\ UNCHANGED <<csv_file, total_posts_processed_session,
                               transcript_calls>>
           ELSE /\ Len(transcript_calls) < MaxCalls
                /\ \E response \in Responses :
                    LET transcript == get_tiktok_transcript(response)
                        frame == [df EXCEPT ![index].transcript =
                                        stored_transcript(transcript)]
                        total == total_posts_processed_session + 1
                    IN  /\ df' = frame
                        /\ total_posts_processed_session' = total
                        /\ transcript_calls' =
                                Append(transcript_calls,
                                       [run |-> truns, index |-> index,
                                        url |-> video_url])
                        /\ csv_file' =
                                IF save_due(total) THEN to_csv(frame) ELSE csv_file
    /\ iterated' = iterated + 1
    /\ tpc' = IF iterated + 1 = Len(posts_to_process) THEN "end" ELSE "row"
    /\ UNCHANGED <<truns, posts_to_process, fileAtLoad, collector>>

\* Line 133
final_save(total) == total % BATCH_SIZE # 0

\* Lines 132-138: after the loop
TranscriptEnd ==
    /\ tpc = "end"
    /\ csv_file' =
        IF final_save(total_posts_processed_session) THEN to_csv(df) ELSE csv_file
    /\ tpc' = "idle"
    /\ UNCHANGED <<truns, df, posts_to_process, iterated,
                   total_posts_processed_session, transcript_calls, fileAtLoad,
                   collector>>

NextT == TranscriptLaunch \/ TranscriptRow \/ TranscriptEnd

\* The stores the pass is launched on: no file, an empty file, up to
\* MaxRows rows the collector wrote, each with or without url; a store
\* earlier passes went over; a store without transcript column.
CollectedStores ==
    {[exists |-> TRUE,
      lines |-> <<HeaderRowUrl>>
                \o [k \in DOMAIN urls |-> StoredPost(k, urls[k], "N/A")]] :
        urls \in UNION {[1..n -> {ShareUrl, MissingUrl}] : n \in 0..MaxRows}}

VisitedStore ==
    [exists |-> TRUE,
     lines |-> <<HeaderRowUrl,
                 StoredPost(1, ShareUrl, "hola"),
                 StoredPost(2, ShareUrl, "FALLO_API_REINTENTAR"),
                 StoredPost(3, ShareUrl, "TRANSCRIPCION_NO_DISPONIBLE"),
                 StoredPost(4, "", "URL_NO_VALIDA"),
                 StoredPost(5, " ", "N/A"),
                 StoredPost(6, ShareUrl, "N/A")>>]

NoTranscriptColumn ==
    [exists |-> TRUE,
     lines |-> <<[profile_handle |-> "profile_handle",
                  create_time |-> "create_time", url |-> "url"],
                 [profile_handle |-> "alice", create_time |-> Str(1),
                  url |-> ShareUrl],
                 [profile_handle |-> "alice", create_time |-> Str(2),
                  url |-> MissingUrl]>>]

TranscriptStores ==
    {NoFile, EmptyFile, VisitedStore, NoTranscriptColumn} \cup CollectedStores

InitT ==
    /\ pc = "idle"
    /\ run = 0
    /\ csv_file \in TranscriptStores
    /\ existing_timestamps = {}
    /\ total_new_posts_added = 0
    /\ new_data_batch = <<>>
    /\ i = 1
    /\ max_cursor = NoCursor
    /\ videos_data_json = EmptyPage
    /\ j = 1
    /\ duplicate_count_in_page = 0
    /\ new_timestamps_to_add = {}
    /\ remote = [h \in {"alice"} |-> <<>>]
    /\ fetchFails = 0
    /\ fetchLog = <<>>
    /\ verdicts = <<>>
    /\ accepted = <<>>
    /\ rowsAtLaunch = 0
    /\ flushLog = <<>>
    /\ profiles_file = NoProfilesFile
    /\ kills = 0
    /\ writeFailsLeft = 0
    /\ TranscriptPassIdle

\* The transcript pass launched, once or again, on a store at rest
SpecT == InitT /\ [][NextT]_vars

\* ------------------------------------------------------------ sanity
TypeOK ==
    /\ pc \in {"idle", "fetch", "eval", "page_end", "profile_end", "killed"}
    /\ run \in 0..MaxRuns
    /\ perfiles = <<>> \/ i \in DOMAIN perfiles
    /\ Len(new_data_batch) <= BATCH_SIZE

\* ------------------------------------------------------------ vocabulary
\* The run launched last has reached line 263.
RunCompleted == run >= 1 /\ pc = "idle"

\* The rows this run appended to the store.
Appended ==
    LET rows == StoreRows(csv_file)
    IN  SubSeq(rows, rowsAtLaunch + 1, Len(rows))

\* The page being evaluated, and the posts of it that pass the parse and
\* the month filter.
Page == videos_data_json.aweme_list
Scanning == pc \in {"eval", "page_end"}
InWindow(s) == ParsesAsInt(s) /\ ParseInt(s) >= MONTH_LIMIT_TS
OlderThanCutoff(s) == ParsesAsInt(s) /\ ParseInt(s) < MONTH_LIMIT_TS

\* Request k of the run returned a page whose evaluation is over.
EvaluatedPage(k) ==
    fetchLog[k].outcome = "page" /\ fetchLog[k].decision # "open"

\* No request for the same profile follows request k.
LastRequestOfProfile(k) ==
    \A m \in DOMAIN fetchLog : m > k => fetchLog[m].profile # fetchLog[k].profile

\* The run is between PageEnd and the next step.
AfterPageEnd ==
    /\ fetchLog # <<>>
    /\ EvaluatedPage(Len(fetchLog))
    /\ fetchLog[Len(fetchLog)].profile = i
    /\ pc \in {"fetch", "profile_end"}

\* The page of a request met a stop condition: density, no cursor, or
\* has_more = 0.
StopCondition(entry) ==
    \/ entry.dup >= DUPLICATE_THRESHOLD
    \/ entry.max_cursor = NoCursor
    \/ entry.has_more = 0

SumRows(log) ==
    LET F[n \in 0..Len(log)] == IF n = 0 THEN 0 ELSE F[n - 1] + log[n].rows
    IN  F[Len(log)]

\* ------------------------------------------------------------ claims
\* C1 (as stated): a second run to completion against the unchanged remote
\* (no failed fetch in either run), on the store the first run left, accepts
\* no post and appends no row.
C1_IdempotentRerun ==
    (run >= 2 /\ RunCompleted /\ fetchFails = 0) =>
        (total_new_posts_added = 0 /\ Appended = <<>>)

\* C2 (as stated): a page holding at least DUPLICATE_THRESHOLD posts whose
\* ids are in the dedup index when the page arrives is the profile's last
\* request.
C2_AsStated ==
    \A k \in DOMAIN fetchLog :
        (EvaluatedPage(k) /\ fetchLog[k].indexed >= DUPLICATE_THRESHOLD) =>
            LastRequestOfProfile(k)

\* C2 (amended): a page on which at least DUPLICATE_THRESHOLD posts passed
\* the parse and the month filter and were found in the dedup index when
\* evaluated (duplicate_count_in_page) ends the profile's pagination: the
\* page is evaluated to its last post, the loop is left and no further page
\* of the profile is requested.
C2_DensityStop ==
    /\ \A k \in DOMAIN fetchLog :
        (EvaluatedPage(k) /\ fetchLog[k].dup >= DUPLICATE_THRESHOLD) =>
            /\ LastRequestOfProfile(k)
            /\ k = Len(fetchLog) =>
                    (pc = "profile_end" \/ pc = "idle" \/ i # fetchLog[k].profile)
    /\ (pc = "page_end" /\ duplicate_count_in_page >= DUPLICATE_THRESHOLD) =>
            Len(verdicts) = Len(Page)

\* A dense page that announced a next page was the profile's last request
\* and the run went on to the next profile.
C2_Witness ==
    \E k \in DOMAIN fetchLog :
        /\ EvaluatedPage(k)
        /\ fetchLog[k].dup >= DUPLICATE_THRESHOLD
        /\ fetchLog[k].max_cursor # NoCursor
        /\ fetchLog[k].has_more = 1
        /\ k < Len(fetchLog)

\* C3: after a page evaluated without density stop that reported no cursor
\* or has_more = 0, no further page of the profile is requested.
C3_EndOfResultsStop ==
    \A k \in DOMAIN fetchLog :
        ( /\ EvaluatedPage(k)
          /\ fetchLog[k].dup < DUPLICATE_THRESHOLD
          /\ (fetchLog[k].max_cursor = NoCursor \/ fetchLog[k].has_more = 0) ) =>
            LastRequestOfProfile(k)

\* C4: when the run completes, the rows it appended to the store are its
\* accepted posts, each once.
C4_AcceptedWrittenOnce == RunCompleted => Appended = accepted

\* C5: right after the end-of-page step of a page that met a stop condition
\* (density, no cursor, has_more = 0) the pending batch is empty, every
\* post accepted so far in the run is in the store, and the staged ids are
\* in the dedup index; after a density stop the profile is being finalized.
C5_FlushOnStop ==
    (AfterPageEnd /\ StopCondition(fetchLog[Len(fetchLog)])) =>
        /\ new_data_batch = <<>>
        /\ Appended = accepted
        /\ new_timestamps_to_add \subseteq existing_timestamps
        /\ {row.create_time : row \in {accepted[k] : k \in DOMAIN accepted}}
                \subseteq existing_timestamps
        /\ fetchLog[Len(fetchLog)].dup >= DUPLICATE_THRESHOLD =>
                pc = "profile_end"

\* A partial batch was flushed by the end-of-page step of a stopping page.
C5_Witness ==
    /\ AfterPageEnd
    /\ StopCondition(fetchLog[Len(fetchLog)])
    /\ flushLog # <<>>
    /\ flushLog[Len(flushLog)].at = "page_end"
    /\ flushLog[Len(flushLog)].request = Len(fetchLog)
    /\ flushLog[Len(flushLog)].rows < BATCH_SIZE
    /\ new_timestamps_to_add # {}

\* C6: the pending batch never holds BATCH_SIZE posts between two steps:
\* the step that accepts the BATCH_SIZE-th pending post flushes once, all
\* BATCH_SIZE rows, and empties the batch.
C6_BatchFlushBoundary ==
    /\ Len(new_data_batch) < BATCH_SIZE
    /\ \A n \in DOMAIN flushLog :
            flushLog[n].at = "batch" => flushLog[n].rows = BATCH_SIZE
    /\ Len(accepted) = SumRows(flushLog) + Len(new_data_batch)

\* The batch was flushed in the middle of a page: the next post of the page
\* is still to be evaluated and the batch is empty.
C6_Witness ==
    /\ pc = "eval"
    /\ flushLog # <<>>
    /\ flushLog[Len(flushLog)].at = "batch"
    /\ flushLog[Len(flushLog)].request = Len(fetchLog)
    /\ new_data_batch = <<>>
    /\ verdicts[Len(verdicts)].verdict = "accepted"

\* C7: the store holds the header once, as its first line, as soon as it
\* holds anything; a flush writes the header exactly when it finds the file
\* missing or of zero size.
HeaderCount(f) == Cardinality({k \in DOMAIN f.lines : f.lines[k] = HeaderRow})

C7_HeaderOnce ==
    /\ ZeroSize(csv_file) => HeaderCount(csv_file) = 0
    /\ ~ZeroSize(csv_file) =>
            (csv_file.lines[1] = HeaderRow /\ HeaderCount(csv_file) = 1)
    /\ \A n \in DOMAIN flushLog : flushLog[n].header = flushLog[n].empty_before

\* The first flush found an existing file of zero size and wrote the header,
\* and a later flush of the run appended rows only.
C7_Witness ==
    /\ Len(flushLog) >= 2
    /\ flushLog[1].header
    /\ rowsAtLaunch = 0
    /\ ~flushLog[2].header
    /\ HeaderCount(csv_file) = 1

\* C8: a post older than the cutoff changes nothing but the position in the
\* page: the page is scanned to its last post, every post that parses, is
\* in the window and is not in the index when evaluated is accepted, and
\* after a page with old posts that meets no stop condition (density, no
\* cursor, has_more = 0) the next page of the profile is requested.
AcceptedOnPage ==
    Cardinality({k \in DOMAIN verdicts : verdicts[k].verdict = "accepted"})

C8_TimeWindowSkipNonBlocking ==
    /\ Scanning =>
        /\ Len(verdicts) = j - 1
        /\ pc = "page_end" <=> Len(verdicts) = Len(Page)
        /\ \A k \in DOMAIN verdicts :
            /\ OlderThanCutoff(Page[k]) => verdicts[k].verdict = "old"
            /\ (InWindow(Page[k]) /\ ~verdicts[k].indexed) =>
                    verdicts[k].verdict = "accepted"
        /\ Len(accepted) =
                fetchLog[Len(fetchLog)].accepted_before + AcceptedOnPage
    /\ \A k \in DOMAIN fetchLog :
        (EvaluatedPage(k) /\ fetchLog[k].old > 0 /\ ~StopCondition(fetchLog[k])) =>
            /\ fetchLog[k].decision = "continue"
            /\ k = Len(fetchLog) => (pc = "fetch" /\ i = fetchLog[k].profile)
            /\ k < Len(fetchLog) =>
                    /\ fetchLog[k + 1].profile = fetchLog[k].profile
                    /\ fetchLog[k + 1].cursor = fetchLog[k].max_cursor

\* An old post stood between two accepted posts of a page, and the next
\* page of the same profile was requested.
C8_Witness ==
    /\ Scanning
    /\ Len(fetchLog) >= 2
    /\ LET prev == fetchLog[Len(fetchLog) - 1]
           shown == Response(perfiles[prev.profile], prev.cursor).aweme_list
       IN  /\ prev.profile = i
           /\ prev.outcome = "page"
           /\ prev.max_cursor # NoCursor
           /\ fetchLog[Len(fetchLog)].cursor = prev.max_cursor
           /\ prev.old > 0
           /\ Len(accepted) >= prev.accepted_before + 2
           /\ \E k \in 2..(Len(shown) - 1) :
                /\ OlderThanCutoff(shown[k])
                /\ accepted[prev.accepted_before + 1].create_time \in
                        {shown[m] : m \in 1..(k - 1)}
                /\ accepted[prev.accepted_before + 2].create_time \in
                        {shown[m] : m \in (k + 1)..Len(shown)}

\* C9: the month filter rejects exactly the posts created strictly before
\* the cutoff, and duplicate_count_in_page counts exactly the evaluated
\* posts in the window that were in the index when evaluated.
C9_TimeWindowFilter ==
    Scanning =>
        /\ \A k \in DOMAIN verdicts :
            /\ verdicts[k].verdict = "old" <=> OlderThanCutoff(Page[k])
            /\ (ParsesAsInt(Page[k]) /\ ParseInt(Page[k]) = MONTH_LIMIT_TS) =>
                    verdicts[k].verdict \in {"accepted", "duplicate"}
        /\ duplicate_count_in_page =
            Cardinality({k \in DOMAIN verdicts :
                            InWindow(Page[k]) /\ verdicts[k].indexed})

\* A post created at the cutoff was accepted and an old post whose id is in
\* the index was skipped without being counted.
C9_Witness ==
    /\ Scanning
    /\ \E k, m \in DOMAIN verdicts :
        /\ Page[k] = Str(MONTH_LIMIT_TS)
        /\ verdicts[k].verdict = "accepted"
        /\ OlderThanCutoff(Page[m])
        /\ verdicts[m].indexed
    /\ duplicate_count_in_page = 0

\* C10: a post whose timestamp does not parse is skipped: its string is in
\* no row of the batch or the store and in neither id set, it is not counted
\* as duplicate, and the scan goes on to the page's last post.
C10_UnparsableSkipped ==
    /\ \A s \in existing_timestamps \cup new_timestamps_to_add : ParsesAsInt(s)
    /\ \A k \in DOMAIN new_data_batch : ParsesAsInt(new_data_batch[k].create_time)
    /\ \A k \in DOMAIN accepted : ParsesAsInt(accepted[k].create_time)
    /\ \A k \in DOMAIN csv_file.lines :
            csv_file.lines[k] = HeaderRow \/ ParsesAsInt(csv_file.lines[k].create_time)
    /\ Scanning =>
        /\ \A k \in DOMAIN verdicts :
            ~ParsesAsInt(Page[k]) => verdicts[k].verdict = "invalid"
        /\ duplicate_count_in_page =
            Cardinality({k \in DOMAIN verdicts : verdicts[k].verdict = "duplicate"})
        /\ duplicate_count_in_page <=
            Cardinality({k \in DOMAIN verdicts : ParsesAsInt(Page[k])})
        /\ pc = "page_end" => Len(verdicts) = Len(Page)

\* A post without timestamp was skipped and a later post of the page was
\* accepted.
C10_Witness ==
    /\ Scanning
    /\ \E k, m \in DOMAIN verdicts :
        /\ k < m
        /\ ~ParsesAsInt(Page[k])
        /\ verdicts[k].verdict = "invalid"
        /\ verdicts[m].verdict = "accepted"

\* C11: a failed page fetch ends the profile's pagination and nothing else:
\* it is the profile's last request of the run (no retry), the loop is left
\* for the end of the profile, and the run goes on with the next profile's
\* first page, or completes if the profile was the last.
C11_FailedFetchNonFatal ==
    \A k \in DOMAIN fetchLog :
        fetchLog[k].outcome = "failed" =>
            /\ LastRequestOfProfile(k)
            /\ k = Len(fetchLog) =>
                    \/ pc = "profile_end" /\ i = fetchLog[k].profile
                    \/ pc = "fetch" /\ i = fetchLog[k].profile + 1
                    \/ pc = "idle" /\ fetchLog[k].profile = Len(perfiles)
            /\ k < Len(fetchLog) =>
                    /\ fetchLog[k + 1].profile = fetchLog[k].profile + 1
                    /\ fetchLog[k + 1].cursor = NoCursor

\* The request of a profile's second page failed, and the next profile's
\* first page was fetched and is being evaluated.
C11_Witness ==
    \E k \in DOMAIN fetchLog :
        /\ fetchLog[k].outcome = "failed"
        /\ fetchLog[k].cursor # NoCursor
        /\ k < Len(fetchLog)
        /\ fetchLog[k + 1].outcome = "page"
        /\ fetchLog[k + 1].profile = fetchLog[k].profile + 1
        /\ pc = "eval"

\* C12: after a flush that failed, the ids staged for the batch it did not
\* write are not in the dedup index.
C12_FailedFlushNotMerged ==
    \A n \in DOMAIN flushLog :
        ~flushLog[n].ok => flushLog[n].staged \cap existing_timestamps = {}

\* C13: when a run in which a write failed completes with nothing pending,
\* the count it reports is the number of rows it appended to the store.
C13_ReportedCountIsWritten ==
    ( /\ RunCompleted
      /\ new_data_batch = <<>>
      /\ \E n \in DOMAIN flushLog : ~flushLog[n].ok ) =>
        total_new_posts_added = Len(Appended)

\* C14: no two rows of the store carry the same profile and the same
\* create_time.
C14_UniquePerProfile ==
    LET rows == StoreRows(csv_file)
    IN  \A a, b \in DOMAIN rows :
            ( /\ rows[a].profile_handle = rows[b].profile_handle
              /\ rows[a].create_time = rows[b].create_time ) => a = b

\* C15: the dedup index is seeded at launch, before the first request, with
\* exactly the create_time values of the rows of the store (none for a
\* missing or empty store, and the run goes on to its first request); from
\* then on the index only grows, by ids of posts the run accepted.
StoreIdsAtLaunch ==
    LET rows == StoreRows(csv_file)
    IN  {rows[k].create_time : k \in 1..rowsAtLaunch}

C15_IndexSeededAtLaunch ==
    /\ (run >= 1 /\ perfiles # <<>>) =>
        /\ StoreIdsAtLaunch \subseteq existing_timestamps
        /\ existing_timestamps \subseteq
                StoreIdsAtLaunch \cup {accepted[k].create_time : k \in DOMAIN accepted}
    /\ (pc = "fetch" /\ fetchLog = <<>>) =>
        /\ existing_timestamps = StoreIdsAtLaunch
        /\ rowsAtLaunch = Len(StoreRows(csv_file))
        /\ (~csv_file.exists \/ ZeroSize(csv_file)) => existing_timestamps = {}

\* A run was launched on an existing store of zero size, which pandas
\* cannot read: its index is empty and its first page is being evaluated.
C15_Witness ==
    /\ pc = "eval"
    /\ Len(fetchLog) = 1
    /\ j = 1
    /\ csv_file.exists
    /\ ZeroSize(csv_file)
    /\ existing_timestamps = {}

\* C16: with the profile list missing or without a non-blank line, a launch
\* returns at once: no page is requested, nothing is flushed and no step
\* changes the store; and the handles the run processes are exactly the
\* non-blank lines of the list, stripped, in order.
NoHandles ==
    \/ ~profiles_file.exists
    \/ \A k \in DOMAIN profiles_file.lines :
            \A c \in DOMAIN profiles_file.lines[k] :
                profiles_file.lines[k][c] \in Blank

NonBlankLines ==
    {k \in DOMAIN profiles_file.lines :
        \E c \in DOMAIN profiles_file.lines[k] :
            profiles_file.lines[k][c] \notin Blank}

C16_NoProfilesCleanStop ==
    /\ [](NoHandles => (pc = "idle" /\ fetchLog = <<>> /\ flushLog = <<>>))
    /\ [][NoHandles => csv_file' = csv_file]_vars
    /\ [](LET handles == perfiles
          IN  /\ Len(handles) = Cardinality(NonBlankLines)
              /\ \A k \in DOMAIN handles : handles[k] \notin Blank \cup {""}
              /\ \A k \in DOMAIN fetchLog :
                    /\ fetchLog[k].profile \in DOMAIN handles
                    /\ handles[fetchLog[k].profile] \in DOMAIN remote)

\* The collector was launched twice on a profile list of blank lines only
\* and a store with rows: both runs are over, nothing was requested.
C16_Witness ==
    /\ run = 2
    /\ pc = "idle"
    /\ profiles_file.exists
    /\ profiles_file.lines # <<>>
    /\ NoHandles
    /\ fetchLog = <<>>
    /\ Len(StoreRows(csv_file)) >= 1

\* C17: every launched run completes.  Every remote of the model is finite
\* and ends with a page that reports no cursor or has_more = 0, or with the
\* empty page.  A run the bound on logged requests cuts short (it stands
\* before a request that is not a repetition and that the bound forbids) is
\* left out: it shows nothing about the code.
CutShort ==
    /\ pc = "fetch"
    /\ Len(fetchLog) >= MaxFetches
    /\ ~Repeats(Requested("page", Response(perfiles[i], max_cursor)))

C17_Terminates == (pc # "idle") ~> (pc = "idle" \/ CutShort)

\* C18: when the first page of a profile is requested, the pending batch is
\* empty: every post accepted for the earlier profiles is in the store.
FirstRequestOfProfile(k) ==
    \A m \in DOMAIN fetchLog : m < k => fetchLog[m].profile # fetchLog[k].profile

C18_ProfileFlushedBeforeNext ==
    \A k \in DOMAIN fetchLog :
        (FirstRequestOfProfile(k) /\ fetchLog[k].profile > 1) =>
            fetchLog[k].pending = 0

\* C19: the density check is made after the page's last post and nowhere
\* else: while posts of the page remain the scan goes on whatever the
\* duplicate count, the posts after the threshold-th duplicate get the
\* verdict any post gets (accepted if in the window and not in the index),
\* and the loop is left for the end of the profile only by the end-of-page
\* step of a page whose count reached the threshold.
DenseAt(k) ==
    Cardinality({m \in 1..k : verdicts[m].verdict = "duplicate"})
        >= DUPLICATE_THRESHOLD

C19_DensityCheckAfterPage ==
    /\ Scanning =>
        /\ pc = "page_end" <=> Len(verdicts) = Len(Page)
        /\ \A k \in DOMAIN verdicts :
            (k > 1 /\ DenseAt(k - 1)) =>
                /\ verdicts[k].verdict = Verdict(Page[k], IF verdicts[k].indexed
                                                          THEN {Page[k]} ELSE {})
                /\ (InWindow(Page[k]) /\ ~verdicts[k].indexed) =>
                        verdicts[k].verdict = "accepted"
    /\ \A k \in DOMAIN fetchLog :
        fetchLog[k].decision = "break" <=>
            (EvaluatedPage(k) /\ fetchLog[k].dup >= DUPLICATE_THRESHOLD)

\* A post that follows the page's fourth duplicate was accepted, and the
\* end-of-page step then stopped the pagination with that post written.
C19_Witness ==
    /\ AfterPageEnd
    /\ pc = "profile_end"
    /\ fetchLog[Len(fetchLog)].decision = "break"
    /\ \E k \in DOMAIN verdicts :
        /\ k > 1
        /\ DenseAt(k - 1)
        /\ verdicts[k].verdict = "accepted"
        /\ accepted # <<>>
        /\ accepted[Len(accepted)].create_time = Page[k]
        /\ Appended = accepted

\* C20: a post counted as duplicate on a page does not have the id of a
\* post accepted earlier on the same page.
C20_DuplicateCountPreexistingOnly ==
    Scanning =>
        \A k \in DOMAIN verdicts :
            verdicts[k].verdict = "duplicate" =>
                ~\E m \in 1..(k - 1) :
                    Page[m] = Page[k] /\ verdicts[m].verdict = "accepted"

\* C21: after a page on which nothing was accepted and fewer than
\* DUPLICATE_THRESHOLD duplicates were counted, the next page of the profile
\* is requested with the returned cursor if the page reported a cursor and
\* has_more is not 0, and otherwise the pagination of the profile is over:
\* the loop is left and no further request of the profile is made.
AcceptedOnRequest(k) ==
    (IF k < Len(fetchLog) THEN fetchLog[k + 1].accepted_before ELSE Len(accepted))
        - fetchLog[k].accepted_before

C21_ZeroAcceptedPage ==
    \A k \in DOMAIN fetchLog :
        ( /\ EvaluatedPage(k)
          /\ AcceptedOnRequest(k) = 0
          /\ fetchLog[k].dup < DUPLICATE_THRESHOLD ) =>
            IF fetchLog[k].max_cursor # NoCursor /\ fetchLog[k].has_more # 0
            THEN /\ fetchLog[k].decision = "continue"
                 /\ k < Len(fetchLog) =>
                        /\ fetchLog[k + 1].profile = fetchLog[k].profile
                        /\ fetchLog[k + 1].cursor = fetchLog[k].max_cursor
            ELSE /\ LastRequestOfProfile(k)
                 /\ k = Len(fetchLog) => ~(pc = "fetch" /\ i = fetchLog[k].profile)

\* C22: when a run was killed and the collector, launched again, has run to
\* completion without a failed fetch, the store holds every in-window post
\* of every profile of the remote exactly once; the posts the completed run
\* accepted and left in its batch (C4) are not held against the claim.
InWindowIds(handle) ==
    {s \in UNION {{remote[handle][n].aweme_list[k] :
                        k \in DOMAIN remote[handle][n].aweme_list} :
                    n \in DOMAIN remote[handle]} : InWindow(s)}

RowsOf(handle, s) ==
    LET rows == StoreRows(csv_file)
    IN  Cardinality({k \in DOMAIN rows :
            rows[k].profile_handle = handle /\ rows[k].create_time = s})

StillPending(handle, s) ==
    \E k \in DOMAIN new_data_batch : new_data_batch[k] = PostData(handle, s)

C22_ResumableFromStore ==
    (kills >= 1 /\ RunCompleted /\ fetchFails = 0) =>
        \A handle \in DOMAIN remote :
            \A s \in InWindowIds(handle) :
                RowsOf(handle, s) = 1 \/ StillPending(handle, s)

\* C23: the first request of a profile carries no cursor, and every later
\* request of the profile follows a page of the same profile and carries the
\* cursor that page returned; between requests max_cursor holds the cursor
\* the next request will carry.
C23_CursorProtocol ==
    /\ \A k \in DOMAIN fetchLog :
        IF FirstRequestOfProfile(k)
        THEN fetchLog[k].cursor = NoCursor
        ELSE /\ fetchLog[k - 1].profile = fetchLog[k].profile
             /\ fetchLog[k - 1].outcome = "page"
             /\ fetchLog[k].cursor = fetchLog[k - 1].max_cursor
    /\ (pc = "fetch" /\ \A k \in DOMAIN fetchLog : fetchLog[k].profile # i) =>
            max_cursor = NoCursor

\* A profile's request with a cursor failed, leaving that cursor in
\* max_cursor, and the next profile's first page was requested without
\* cursor.
C23_Witness ==
    \E k \in DOMAIN fetchLog :
        /\ k > 2
        /\ fetchLog[k].profile = fetchLog[k - 1].profile + 1
        /\ fetchLog[k].cursor = NoCursor
        /\ fetchLog[k].outcome = "page"
        /\ fetchLog[k - 1].outcome = "failed"
        /\ fetchLog[k - 1].cursor # NoCursor
        /\ fetchLog[k - 1].cursor = fetchLog[k - 2].max_cursor

\* C24: the dedup lookup is by id alone: an in-window post whose id is in
\* the index when it is evaluated, whatever the profile of the post that
\* brought the id there, is counted as duplicate and not accepted; so no id
\* is in the store under two profiles.
C24_GlobalDedup ==
    /\ Scanning =>
        /\ \A k \in DOMAIN verdicts :
            (InWindow(Page[k]) /\ verdicts[k].indexed) =>
                verdicts[k].verdict = "duplicate"
        /\ duplicate_count_in_page >=
            Cardinality({k \in DOMAIN verdicts :
                            InWindow(Page[k]) /\ verdicts[k].indexed})
    /\ LET rows == StoreRows(csv_file)
       IN  \A a, b \in DOMAIN rows :
            rows[a].create_time = rows[b].create_time =>
                rows[a].profile_handle = rows[b].profile_handle

\* The second profile's post has the id of a row of the first profile: it
\* was counted as duplicate, and nothing of the second profile was accepted.
C24_Witness ==
    /\ pc = "page_end"
    /\ i = 2
    /\ Len(verdicts) = 1
    /\ verdicts[1].verdict = "duplicate"
    /\ duplicate_count_in_page = 1
    /\ \E k \in DOMAIN csv_file.lines :
            csv_file.lines[k] = PostData(perfiles[1], Page[1])
    /\ \A k \in DOMAIN accepted : accepted[k].profile_handle # perfiles[2]

\* ------------------------------------------------------------ transcript pass vocabulary
\* The last launch of the pass has returned.
PassCompleted == truns >= 1 /\ tpc = "idle"

\* The last launch read the store into a DataFrame.
Loaded == truns >= 1 /\ fileAtLoad.exists /\ ~ZeroSize(fileAtLoad)

\* This launch's transcript requests
CallsOfRun ==
    SelectSeq(transcript_calls, LAMBDA call : call.run = truns)

\* C25: from the launch of the transcript pass on, the store has the lines
\* it had at load, in the same order, each with every field but transcript
\* as it was, and with the transcript it had when that was not "N/A".
C25_OnlyTranscriptChanges ==
    /\ truns >= 1 => Len(csv_file.lines) = Len(fileAtLoad.lines)
    /\ truns >= 1 =>
        \A k \in DOMAIN fileAtLoad.lines :
            LET before == fileAtLoad.lines[k]
                after == csv_file.lines[k]
            IN  /\ \A c \in DOMAIN before \ {"transcript"} : after[c] = before[c]
                /\ ("transcript" \in DOMAIN before /\ before.transcript # "N/A") =>
                        after.transcript = before.transcript

\* C26: every transcript request of a launch is for a row whose transcript
\* in the store at load was "N/A" (or that had no transcript column), never
\* for a row holding a text or one of the three terminal marks; and the
\* launch that follows a completed one makes no request.
C26_ResumableScan ==
    /\ \A n \in DOMAIN CallsOfRun :
            LET row == fileAtLoad.lines[CallsOfRun[n].index + 1]
            IN  "transcript" \in DOMAIN row => row.transcript = "N/A"
    /\ truns >= 2 => CallsOfRun = <<>>

\* C27: when a launch of the transcript pass has returned, every row that
\* was pending at load holds in the store the transcript it holds in the
\* DataFrame, the rows marked "URL_NO_VALIDA" included.
C27_DiskReflectsMemory ==
    (PassCompleted /\ Loaded) =>
        \A n \in DOMAIN posts_to_process :
            LET index == posts_to_process[n]
                line == csv_file.lines[index + 1]
            IN  /\ "transcript" \in DOMAIN line
                /\ line.transcript = df[index].transcript

\* C28: whenever a page is about to be requested, the dedup index holds the
\* id of every post the run has accepted, flushed or still in the batch;
\* and two posts the run accepted with the same id were accepted on the
\* same page, never on a later page of this or another profile.
RequestOf(n) ==
    CHOOSE k \in DOMAIN fetchLog :
        /\ fetchLog[k].accepted_before < n
        /\ \A m \in DOMAIN fetchLog : m > k => fetchLog[m].accepted_before >= n

C28_AcceptedIndexedAtFetch ==
    /\ pc = "fetch" =>
            \A n \in DOMAIN accepted : accepted[n].create_time \in existing_timestamps
    /\ \A a, b \in DOMAIN accepted :
            accepted[a].create_time = accepted[b].create_time =>
                RequestOf(a) = RequestOf(b)

\* The second page of a profile repeats a post the first page had: the
\* post, accepted there and still in the batch, is found in the index.
C28_Witness ==
    /\ Scanning /\ Len(fetchLog) = 2
    /\ fetchLog[1].profile = fetchLog[2].profile
    /\ new_data_batch # <<>>
    /\ \E k \in DOMAIN verdicts :
            /\ verdicts[k].verdict = "duplicate"
            /\ \E n \in DOMAIN new_data_batch :
                    new_data_batch[n].create_time = Page[k]

\* C29: every row the run has appended to the store is the row of a post
\* the run accepted, with a creation time at or after the cutoff and the
\* transcript "N/A"; and every post of the page in evaluation that was
\* accepted is in the window, was not in the dedup index when it was
\* evaluated, and is the post whose row was built.
AcceptedUpTo(k) ==
    Cardinality({m \in 1..k : verdicts[m].verdict = "accepted"})

C29_AppendedRowsQualified ==
    /\ run >= 1 =>
        \A k \in DOMAIN Appended :
            /\ k <= Len(accepted)
            /\ Appended[k] = accepted[k]
            /\ InWindow(Appended[k].create_time)
            /\ Appended[k].transcript = "N/A"
    /\ Scanning =>
            \A k \in DOMAIN verdicts :
                verdicts[k].verdict = "accepted" =>
                    /\ InWindow(Page[k])
                    /\ ~verdicts[k].indexed
                    /\ accepted[fetchLog[Len(fetchLog)].accepted_before
                                    + AcceptedUpTo(k)]
                            = PostData(perfiles[i], Page[k])

\* A run wrote every post it accepted, from a page that also had a post
\* older than the cutoff and a post already in the index.
C29_Witness ==
    /\ RunCompleted
    /\ Appended # <<>>
    /\ Appended = accepted
    /\ \E k \in DOMAIN fetchLog :
            /\ EvaluatedPage(k)
            /\ fetchLog[k].old > 0
            /\ fetchLog[k].dup > 0
            /\ AcceptedOnRequest(k) > 0

\* C30: in a launch of the transcript pass every pending row the loop has
\* visited got one outcome: a row without url the mark "URL_NO_VALIDA" and
\* no request; any other row exactly one request and a text or one of the
\* marks of an unavailable transcript or a failed call, never "N/A".  The
\* rows not visited yet have no request and hold "N/A", and after the loop
\* no row of the DataFrame holds "N/A".
C30_OneCallOneOutcome ==
    (Loaded /\ df # <<>>) =>
        /\ \A a, b \in DOMAIN CallsOfRun :
                CallsOfRun[a].index = CallsOfRun[b].index => a = b
        /\ \A n \in DOMAIN posts_to_process :
                LET index == posts_to_process[n]
                    calls == {a \in DOMAIN CallsOfRun : CallsOfRun[a].index = index}
                IN  IF n > iterated
                    THEN calls = {} /\ df[index].transcript = "N/A"
                    ELSE IF url_missing(df[index].url)
                    THEN calls = {} /\ df[index].transcript = "URL_NO_VALIDA"
                    ELSE /\ Cardinality(calls) = 1
                         /\ df[index].transcript # "URL_NO_VALIDA"
                         /\ df[index].transcript # "N/A"
        /\ (tpc = "end" \/ PassCompleted) => \A k \in DOMAIN df : df[k].transcript # "N/A"

====
